---- MODULE Spec2Model ----
(***************************************************************************)
(* Real-time delivery hub of Be-LostMedia: the connection registry         *)
(* (Hub.Run and its public operations) and the connection session          *)
(* (ServeWS, Client.readPump, Client.writePump); and the engagement-ranked *)
(* feed: the score store kept in Redis by postRepository and the services  *)
(* that mutate like, comment and view counts.                              *)
(***************************************************************************)
EXTENDS Integers, Sequences, FiniteSets, TLC

\* ------------------------------------------------------------------------
\* Bounds of the model
\* ------------------------------------------------------------------------
\* capacity of Client.send (256 in NewClient), scaled down
SendCap == 1
\* capacity of Hub.broadcast (256 in NewHub), scaled down
BroadcastCap == 1
\* number of BroadcastToUser calls made by other components
MaxCalls == 2
\* number of in-band "ping" frames the peers send
MaxPings == 1

\* number of write failures (w.Close or ping write) the connections suffer
MaxWriteFails == 1
\* number of calls, pings and write failures together
MaxEvents == 2

\* like rows one post can collect (one per liking user)
MaxLikes == 3
\* comment rows one post can collect
MaxComments == 1
\* view rows one post can collect (one per viewing user)
MaxViews == 1
\* largest page size requested (the handler clamps limit to 1..100)
MaxLimit == 2
\* largest offset requested (the handler clamps offset to >= 0)
MaxOffset == 1
\* UpdatePostEngagementScore calls that can be in flight together
MaxInFlight == 1
\* the same, where the two writes of a call are followed one by one
MaxRescores == 2
\* engagement mutations, post updates, feed requests and key expiries together
MaxOps == 4

Users == {"u1", "u2"}
Sessions == {"a", "b"}
\* Message.UserID == "" (omitted target)
NoUser == ""

VARIABLES
    clients,          \* Hub.clients: user id -> set of registered sessions
    broadcast,        \* Hub.broadcast: buffered channel of envelopes
    hubPc,            \* position of Hub.Run: "select" or "presence"
    pending,          \* <<user, online>> Hub.Run is about to announce
    presence,         \* history: broadcastPresence calls made by Hub.Run
    callbacks,        \* history: onPresenceChange invocations
    processed,        \* history: the targeted envelopes Hub.Run handled
    conn,             \* ServeWS position per connection
    UserID,           \* Client.UserID (claims.UserID of the token)
    rp,               \* Client.readPump position per session
    wp,               \* Client.writePump position per session
    pong,             \* the pong envelope readPump is sending (0: none)
    send,             \* Client.send: buffered channel of envelopes
    closed,           \* Client.send has been closed
    cur,              \* envelopes written into the open wire message
    queued,           \* history: the queue as the pump's receive left it
    wire,             \* history: the last wire message written (a batch of ids)
    connClosed,       \* Client.conn has been closed
    calls,            \* BroadcastToUser calls made so far
    pings,            \* ping frames received so far
    wfails,           \* write failures so far
    crashed,          \* the process died of an unrecovered panic
    redis,            \* postRepository.redis != nil
    posts,            \* posts table: id -> row (state, CreatedAt, GroupID)
    likes,            \* likes table: rows with target_type "post" per post
    comments,         \* comments table: live rows per post
    views,            \* post_views table: rows per post
    scoreKey,         \* Redis strings post:engagement:score:<id>
    sorted,           \* Redis sorted set post:engagement:sorted
    sortedTTL,        \* the sorted set key carries an expiry
    feedCache,        \* Redis strings post:feed:<user>:engagement:<l>:<o>
    inflight,         \* UpdatePostEngagementScore calls past their reads: what
                      \* they read and the write they stand at
    outage,           \* the feed request of the last step, when Redis was not
                      \* there for it: why ("nil": not configured), and the page
    ops               \* mutations, feed requests and expiries so far

feedVars == <<redis, posts, likes, comments, views, scoreKey, sorted,
              sortedTTL, feedCache, inflight, outage, ops>>

vars == <<clients, broadcast, hubPc, pending, presence, callbacks, processed,
          conn, UserID, rp, wp, pong, send, closed, cur, queued, wire,
          connClosed, calls, pings, wfails, crashed, feedVars>>

hubVars == <<clients, hubPc, pending, presence, callbacks, processed>>
sessVars == <<conn, UserID, rp, wp, pong, cur, queued, wire, connClosed,
              pings, wfails>>

\* ------------------------------------------------------------------------
\* Helpers
\* ------------------------------------------------------------------------
\* &Message{UserID, Type, Payload}; id stands for the pointer identity
Message(id, uid, type, payload) ==
    [id |-> id, UserID |-> uid, Type |-> type, Payload |-> payload]

Ids(q) == [i \in 1..Len(q) |-> q[i].id]

\* Hub.GetOnlineUserIDs
GetOnlineUserIDs == DOMAIN clients

\* Hub.GetClientCount
GetClientCount(u) == IF u \in DOMAIN clients THEN Cardinality(clients[u]) ELSE 0

\* Hub.GetTotalClientCount
Registered == UNION {clients[u] : u \in DOMAIN clients}
GetTotalClientCount == Cardinality(Registered)

\* Hub.onPresenceChange: a presence callback is installed before Run
OnPresenceChange == TRUE

\* a register that announces the user on every connection
IsNewAlways(u) == TRUE

\* isNew of the register case
IsNew(u) == u \notin DOMAIN clients \/ clients[u] = {}

\* a register case that forgets the session
AddClientForgets(u, s) ==
    [v \in DOMAIN clients \cup {u} |->
        IF v \in DOMAIN clients THEN clients[v] ELSE {}]

\* h.clients[client.UserID][client] = true, the inner map made when missing
AddClient(u, s) ==
    [v \in DOMAIN clients \cup {u} |->
        IF v = u
        THEN (IF u \in DOMAIN clients THEN clients[u] ELSE {}) \cup {s}
        ELSE clients[v]]

\* Hub.mu as each case of Hub.Run holds it while it works on h.clients
mu == [register |-> "Lock", unregister |-> "Lock", broadcast |-> "RLock"]

\* an unregister that takes every session for a registered one
PresentAlways(u, s) == TRUE

\* unregister: "clients, ok := h.clients[client.UserID]" and
\* "_, ok := clients[client]" both find their key
Present(u, s) == u \in DOMAIN clients /\ s \in clients[u]

\* len(clients) == 0 after delete(clients, client) in the unregister case
WasLast(u, s) == clients[u] \ {s} = {}

\* a session queue that is never found full
SendFullNever(q) == FALSE

\* a control channel that is never found full
BroadcastFullNever(q) == FALSE

\* the full test of the buffered channels (select ... default)
SendFull(q) == Len(q) >= SendCap
BroadcastFull(q) == Len(q) >= BroadcastCap

\* a broadcast case that ignores the target of the envelope
TargetsEveryone(m) == UNION {clients[u] : u \in DOMAIN clients}

\* a broadcast case that falls back to everyone for an unknown target
TargetsOrEveryone(m) ==
    IF m.UserID # NoUser /\ m.UserID \in DOMAIN clients
    THEN clients[m.UserID]
    ELSE UNION {clients[u] : u \in DOMAIN clients}

\* the sessions the broadcast case ranges over for an envelope
Targets(m) ==
    IF m.UserID # NoUser
    THEN IF m.UserID \in DOMAIN clients THEN clients[m.UserID] ELSE {}
    ELSE UNION {clients[u] : u \in DOMAIN clients}

\* the non-blocking send onto Hub.broadcast of BroadcastToUser/BroadcastToAll
TrySend(q, m) == IF BroadcastFull(q) THEN q ELSE Append(q, m)

\* Hub.BroadcastToAll, which only broadcastPresence calls
BroadcastToAll(q, id, payload) ==
    TrySend(q, Message(id, NoUser, "broadcast", payload))

\* callers, peers and failures still to come
Events == calls + pings + wfails

\* w.Write([]byte("\n")): the separator, as an element of the wire message
Newline == <<"\n">>

\* the JSON objects of a wire message: what is left when it is split at the
\* separators (json.Marshal escapes every newline inside an object)
Objects(m) == SelectSeq(m, LAMBDA x : x # Newline)

\* a drain that writes the queued envelopes ahead of the received one
CoalesceReversed(w, q) == q \o w

\* a pump that writes the received envelope alone and forgets the queue
CoalesceDropsQueued(w, q) == w

\* the coalescing drain of writePump: n := len(c.send), then n times a
\* receive, the separator and the object
RECURSIVE Coalesce(_, _)
Coalesce(w, q) ==
    IF q = <<>> THEN w
    ELSE Coalesce(w \o <<Newline, Head(q)>>, Tail(q))

\* ------------------------------------------------------------------------
\* Initial state: NewHub, no connection yet
\* ------------------------------------------------------------------------
\* posts the model can create, in the lexicographic order of their ids
PostIds == <<"p1", "p2">>
Posts == {PostIds[i] : i \in DOMAIN PostIds}
\* creation instants (time.Time: seconds since the epoch and nanoseconds):
\* two within one second and the last second a 32-bit clock holds
Times == {[sec |-> 1700000000, nsec |-> 0],
          [sec |-> 1700000000, nsec |-> 500000000],
          [sec |-> 2147483647, nsec |-> 0]}
\* the user whose feed requests the model follows
Requester == "u1"
\* a post id with no row
NoPost == [state |-> "absent", CreatedAt |-> [sec |-> 0, nsec |-> 0],
           GroupID |-> FALSE]
\* redis.Nil: the key does not exist
Missing == <<>>
\* the Redis call of a feed request from which the backend is gone: none,
\* the read of the window, the execution of the rebuild pipeline
Faults == {"none", "window", "exec"}
\* the last step was no feed request, or one that had Redis throughout
NoOutage == [fault |-> "none", limit |-> 0, offset |-> 0, page |-> <<>>]

\* NewHub, no connection yet
HubInit ==
    /\ clients = [u \in {} |-> {}]
    /\ broadcast = <<>>
    /\ hubPc = "select"
    /\ pending = <<NoUser, FALSE>>
    /\ presence = <<>>
    /\ callbacks = <<>>
    /\ processed = <<>>
    /\ conn = [s \in Sessions |-> "idle"]
    /\ UserID = [s \in Sessions |-> NoUser]
    /\ rp = [s \in Sessions |-> "none"]
    /\ wp = [s \in Sessions |-> "none"]
    /\ pong = [s \in Sessions |-> 0]
    /\ send = [s \in Sessions |-> <<>>]
    /\ closed = [s \in Sessions |-> FALSE]
    /\ cur = [s \in Sessions |-> <<>>]
    /\ queued = [s \in Sessions |-> <<>>]
    /\ wire = [s \in Sessions |-> <<>>]
    /\ connClosed = [s \in Sessions |-> FALSE]
    /\ calls = 0
    /\ pings = 0
    /\ wfails = 0
    /\ crashed = FALSE

\* an empty database and an empty Redis
ScoreStoreEmpty ==
    /\ posts = [p \in Posts |-> NoPost]
    /\ likes = [p \in Posts |-> 0]
    /\ comments = [p \in Posts |-> 0]
    /\ views = [p \in Posts |-> 0]
    /\ scoreKey = [p \in Posts |-> Missing]
    /\ sorted = [p \in {} |-> 0]
    /\ sortedTTL = FALSE
    /\ feedCache = [k \in {} |-> <<>>]
    /\ inflight = {}
    /\ outage = NoOutage
    /\ ops = 0

Init ==
    /\ HubInit
    /\ redis = TRUE
    /\ ScoreStoreEmpty

\* ------------------------------------------------------------------------
\* ServeWS
\* ------------------------------------------------------------------------
\* token validated, connection upgraded, NewClient; the handler now stands
\* at "client.hub.register <- client"
ServeWS(s, u) ==
    /\ ~crashed
    /\ conn[s] = "idle"
    \* connections and user names are interchangeable: "a" is the first
    \* connection and "u1" its user
    /\ s = "a" => u = "u1"
    /\ s = "b" => conn["a"] # "idle"
    /\ conn' = [conn EXCEPT ![s] = "register"]
    /\ UserID' = [UserID EXCEPT ![s] = u]
    /\ UNCHANGED <<feedVars, hubVars, broadcast, rp, wp, pong, send, closed, cur, queued,
                   wire, connClosed, calls, pings, wfails, crashed>>

\* ------------------------------------------------------------------------
\* Hub.Run
\* ------------------------------------------------------------------------
\* case client := <-h.register (rendezvous with ServeWS, which then starts
\* the pumps)
HubRegister(s) ==
    /\ ~crashed
    /\ hubPc = "select"
    /\ conn[s] = "register"
    /\ LET u == UserID[s] IN
        /\ clients' = AddClient(u, s)
        /\ IF IsNew(u)
           THEN hubPc' = "presence" /\ pending' = <<u, TRUE>>
           ELSE UNCHANGED <<hubPc, pending>>
    /\ conn' = [conn EXCEPT ![s] = "started"]
    /\ rp' = [rp EXCEPT ![s] = "read"]
    /\ wp' = [wp EXCEPT ![s] = "wait"]
    /\ UNCHANGED <<feedVars, broadcast, presence, callbacks, processed, UserID, pong,
                   send, closed, cur, queued, wire, connClosed, calls, pings,
                   wfails, crashed>>

\* case client := <-h.unregister (rendezvous with the deferred send of
\* readPump, which then closes the connection)
HubUnregister(s) ==
    /\ ~crashed
    /\ hubPc = "select"
    /\ rp[s] = "unregister"
    /\ LET u == UserID[s]
           present == Present(u, s)
           wasLast == present /\ WasLast(u, s)
       IN
        /\ IF present /\ closed[s]
           THEN \* close of a closed channel
                /\ crashed' = TRUE
                /\ UNCHANGED <<clients, closed, hubPc, pending>>
           ELSE /\ crashed' = crashed
                /\ clients' = IF ~present THEN clients
                              ELSE IF wasLast
                              THEN [v \in DOMAIN clients \ {u} |-> clients[v]]
                              ELSE [clients EXCEPT ![u] = @ \ {s}]
                /\ closed' = IF present THEN [closed EXCEPT ![s] = TRUE]
                             ELSE closed
                /\ IF wasLast
                   THEN hubPc' = "presence" /\ pending' = <<u, FALSE>>
                   ELSE UNCHANGED <<hubPc, pending>>
    /\ rp' = [rp EXCEPT ![s] = "exit"]
    /\ connClosed' = [connClosed EXCEPT ![s] = TRUE]
    /\ UNCHANGED <<feedVars, broadcast, presence, callbacks, processed, conn, UserID, wp,
                   pong, send, cur, queued, wire, calls, pings, wfails>>

\* if isNew / if wasLast: broadcastPresence and the presence callback
HubPresence ==
    /\ ~crashed
    /\ hubPc = "presence"
    /\ broadcast' = BroadcastToAll(broadcast, <<"presence", Len(presence) + 1>>,
                                   [type |-> "user_presence",
                                    user_id |-> pending[1],
                                    online |-> pending[2]])
    /\ presence' = Append(presence, pending)
    /\ callbacks' = IF OnPresenceChange THEN Append(callbacks, pending)
                    ELSE callbacks
    /\ hubPc' = "select"
    /\ UNCHANGED <<feedVars, clients, pending, processed, conn, UserID, rp, wp, pong,
                   send, closed, cur, queued, wire, connClosed, calls, pings,
                   wfails, crashed>>

\* case message := <-h.broadcast
HubBroadcast ==
    /\ ~crashed
    /\ hubPc = "select"
    /\ broadcast # <<>>
    /\ LET m == Head(broadcast)
           T == Targets(m)
           evicted == {s \in T : SendFull(send[s])}
       IN
        /\ broadcast' = Tail(broadcast)
        /\ processed' = IF m.UserID # NoUser THEN Append(processed, m)
                         ELSE processed
        /\ IF \E s \in T : closed[s]
           THEN \* send on, or close of, a closed channel
                /\ crashed' = TRUE
                /\ UNCHANGED <<clients, send, closed>>
           ELSE /\ crashed' = crashed
                /\ send' = [s \in Sessions |->
                              IF s \in T \ evicted THEN Append(send[s], m)
                              ELSE send[s]]
                /\ closed' = [s \in Sessions |-> closed[s] \/ s \in evicted]
                /\ clients' = [u \in DOMAIN clients |-> clients[u] \ evicted]
    /\ UNCHANGED <<feedVars, hubPc, pending, presence, callbacks, sessVars, calls>>

\* ------------------------------------------------------------------------
\* Hub.BroadcastToUser, called by other components
\* ------------------------------------------------------------------------
BroadcastToUser(u) ==
    /\ ~crashed
    /\ calls < MaxCalls /\ Events < MaxEvents
    /\ broadcast' = TrySend(broadcast,
                            Message(<<"call", calls + 1>>, u, "notification",
                                    "payload"))
    /\ calls' = calls + 1
    /\ UNCHANGED <<feedVars, hubVars, sessVars, send, closed, crashed>>

\* ------------------------------------------------------------------------
\* Client.readPump
\* ------------------------------------------------------------------------
\* ReadMessage returns a frame {"type":"ping"}: the pump allocates the pong
\* and stands at "c.send <- pong"
ReadPing(s) ==
    /\ ~crashed
    /\ rp[s] = "read"
    /\ ~connClosed[s]
    /\ pings < MaxPings /\ Events < MaxEvents
    /\ pings' = pings + 1
    /\ pong' = [pong EXCEPT ![s] = pings + 1]
    /\ rp' = [rp EXCEPT ![s] = "pong"]
    /\ UNCHANGED <<feedVars, hubVars, broadcast, conn, UserID, wp, send, closed, cur, queued, wire, connClosed, calls, wfails, crashed>>

\* c.send <- pong: blocks while the queue is full, panics when it is closed
SendPong(s) ==
    /\ ~crashed
    /\ rp[s] = "pong"
    /\ closed[s] \/ ~SendFull(send[s])
    /\ IF closed[s]
       THEN /\ crashed' = TRUE
            /\ UNCHANGED <<send, rp, pong>>
       ELSE /\ crashed' = crashed
            /\ send' = [send EXCEPT ![s] =
                          Append(@, Message(<<"pong", pong[s]>>, NoUser,
                                            "pong", "timestamp"))]
            /\ rp' = [rp EXCEPT ![s] = "read"]
            /\ pong' = [pong EXCEPT ![s] = 0]
    /\ UNCHANGED <<feedVars, hubVars, broadcast, conn, UserID, wp, closed, cur, queued, wire,
                   connClosed, calls, pings, wfails>>

\* ReadMessage fails on the peer's side: read error, close or deadline expiry
ReadFail(s) ==
    /\ ~crashed
    /\ rp[s] = "read"
    /\ ~connClosed[s]
    /\ rp' = [rp EXCEPT ![s] = "unregister"]
    /\ UNCHANGED <<feedVars, hubVars, broadcast, conn, UserID, wp, pong, send, closed,
                   cur, queued, wire, connClosed, calls, pings, wfails, crashed>>

\* ReadMessage fails because writePump closed the connection
ReadClosed(s) ==
    /\ ~crashed
    /\ rp[s] = "read"
    /\ connClosed[s]
    /\ rp' = [rp EXCEPT ![s] = "unregister"]
    /\ UNCHANGED <<feedVars, hubVars, broadcast, conn, UserID, wp, pong, send, closed,
                   cur, queued, wire, connClosed, calls, pings, wfails, crashed>>

\* ------------------------------------------------------------------------
\* Client.writePump
\* ------------------------------------------------------------------------
\* case message, ok := <-c.send with ok: NextWriter, Marshal, w.Write
WriteRecv(s) ==
    /\ ~crashed
    /\ wp[s] = "wait"
    /\ send[s] # <<>>
    /\ cur' = [cur EXCEPT ![s] = <<Head(send[s]).id>>]
    /\ queued' = [queued EXCEPT ![s] = Ids(Tail(send[s]))]
    /\ send' = [send EXCEPT ![s] = Tail(@)]
    /\ wp' = [wp EXCEPT ![s] = "write"]
    /\ UNCHANGED <<feedVars, hubVars, broadcast, conn, UserID, rp, pong, closed, wire, connClosed, calls, pings, wfails, crashed>>

\* n := len(c.send); n further receives appended to the open wire message;
\* w.Close() succeeds: the wire message is sent
WriteFlush(s) ==
    /\ ~crashed
    /\ wp[s] = "write"
    /\ ~connClosed[s]
    /\ wire' = [wire EXCEPT ![s] = Coalesce(cur[s], Ids(send[s]))]
    /\ send' = [send EXCEPT ![s] = <<>>]
    /\ cur' = [cur EXCEPT ![s] = <<>>]
    /\ queued' = [queued EXCEPT ![s] = <<>>]
    /\ wp' = [wp EXCEPT ![s] = "wait"]
    /\ UNCHANGED <<feedVars, hubVars, broadcast, conn, UserID, rp, pong, closed, connClosed, calls, pings, wfails, crashed>>

\* w.Close() or the ticker's ping write fails: return, deferred conn.Close()
WriteFail(s) ==
    /\ ~crashed
    /\ wp[s] \in {"wait", "write"}
    /\ wfails < MaxWriteFails /\ Events < MaxEvents
    /\ wfails' = wfails + 1
    /\ wp' = [wp EXCEPT ![s] = "failed"]
    /\ cur' = [cur EXCEPT ![s] = <<>>]
    /\ queued' = [queued EXCEPT ![s] = <<>>]
    /\ connClosed' = [connClosed EXCEPT ![s] = TRUE]
    /\ UNCHANGED <<feedVars, hubVars, broadcast, conn, UserID, rp, pong, send, closed,
                   wire, calls, pings, crashed>>

\* case message, ok := <-c.send with !ok: close frame, return, conn.Close()
WriteHubClosed(s) ==
    /\ ~crashed
    /\ wp[s] = "wait"
    /\ send[s] = <<>>
    /\ closed[s]
    /\ wp' = [wp EXCEPT ![s] = "exit"]
    /\ connClosed' = [connClosed EXCEPT ![s] = TRUE]
    /\ UNCHANGED <<feedVars, hubVars, broadcast, conn, UserID, rp, pong, send, closed,
                   cur, queued, wire, calls, pings, wfails, crashed>>

\* ------------------------------------------------------------------------
\* Specification
\* ------------------------------------------------------------------------
HubStep ==
    \/ \E s \in Sessions : HubRegister(s)
    \/ \E s \in Sessions : HubUnregister(s)
    \/ HubPresence
    \/ HubBroadcast

PumpStep(s) ==
    \/ SendPong(s)
    \/ ReadClosed(s)
    \/ WriteRecv(s)
    \/ WriteFlush(s)
    \/ WriteHubClosed(s)

Next ==
    \/ \E s \in Sessions, u \in Users : ServeWS(s, u)
    \/ \E s \in Sessions : HubRegister(s)
    \/ \E s \in Sessions : HubUnregister(s)
    \/ HubPresence
    \/ HubBroadcast
    \/ \E u \in Users : BroadcastToUser(u)
    \/ \E s \in Sessions : ReadPing(s)
    \/ \E s \in Sessions : SendPong(s)
    \/ \E s \in Sessions : ReadFail(s)
    \/ \E s \in Sessions : ReadClosed(s)
    \/ \E s \in Sessions : WriteRecv(s)
    \/ \E s \in Sessions : WriteFlush(s)
    \/ \E s \in Sessions : WriteFail(s)
    \/ \E s \in Sessions : WriteHubClosed(s)

Spec == Init /\ [][Next]_vars

\* the Go scheduler runs every runnable goroutine: the hub loop and the pumps
\* make progress; peers, callers and I/O failures are under no obligation
FairSpec ==
    /\ Spec
    /\ WF_vars(HubStep)
    /\ \A s \in Sessions : WF_vars(PumpStep(s))

TypeOK ==
    /\ DOMAIN clients \subseteq Users
    /\ \A u \in DOMAIN clients : clients[u] \subseteq Sessions
    /\ Len(broadcast) <= BroadcastCap
    /\ hubPc \in {"select", "presence"}
    /\ \A s \in Sessions : Len(send[s]) <= SendCap
    /\ \A s \in Registered : ~closed[s]
    /\ callbacks = presence

\* ------------------------------------------------------------------------
\* Properties
\* ------------------------------------------------------------------------
\* steps of Hub.Run, recognised by their effect
RegisterHandled(s) == conn[s] = "register" /\ conn'[s] = "started"
UnregisterHandled(s) == rp[s] = "unregister" /\ rp'[s] = "exit"
EnvelopeHandled == broadcast # <<>> /\ broadcast' = Tail(broadcast)
PresenceEmitted == hubPc = "presence" /\ hubPc' = "select"
CallReturned == calls' = calls + 1

IsCall(id) == id[1] = "call"
Held(s) == wire[s] \o cur[s] \o Ids(send[s])
Holds(s, id) == \E i \in 1..Len(Held(s)) : Held(s)[i] = id
Pos(id) == CHOOSE i \in 1..Len(processed) : processed[i].id = id

\* C1: over register and unregister events, Hub.Run announces a user online
\* exactly once when the user's session count leaves zero and offline exactly
\* once when an unregister brings it back to zero; a register or unregister
\* that keeps the count at one or more announces nothing. An announcement is
\* one broadcastPresence call and one callback invocation.
C1_PresencePerTransition ==
    [][/\ \A u \in Users :
            /\ (GetClientCount(u) = 0 /\ GetClientCount(u)' > 0)
                => (hubPc' = "presence" /\ pending' = <<u, TRUE>>)
            /\ (/\ GetClientCount(u) > 0 /\ GetClientCount(u)' = 0
                /\ \E s \in Sessions : UnregisterHandled(s))
                => (hubPc' = "presence" /\ pending' = <<u, FALSE>>)
       /\ (hubPc = "select" /\ hubPc' = "presence")
            => \E u \in Users :
                /\ pending'[1] = u
                /\ IF pending'[2]
                   THEN GetClientCount(u) = 0 /\ GetClientCount(u)' > 0
                   ELSE GetClientCount(u) > 0 /\ GetClientCount(u)' = 0
       /\ hubPc = "presence"
            => /\ pending' = pending
               /\ \A u \in Users : GetClientCount(u)' = GetClientCount(u)
       /\ PresenceEmitted
            => /\ presence' = Append(presence, pending)
               /\ callbacks' = Append(callbacks, pending)
       /\ ~PresenceEmitted
            => /\ presence' = presence
               /\ callbacks' = callbacks
      ]_vars

\* C1 witness: two tabs of u1, tab "a" closed while tab "b" is still open:
\* one online announcement so far and no offline one
C1_Witness ==
    /\ UserID["a"] = "u1" /\ UserID["b"] = "u1"
    /\ rp["a"] = "exit"
    /\ "u1" \in DOMAIN clients /\ clients["u1"] = {"b"}
    /\ hubPc = "select"
    /\ presence = << <<"u1", TRUE>> >>
    /\ calls = 0 /\ pings = 0

\* C2: a user id is reported by GetOnlineUserIDs iff the user has at least
\* one registered session (GetClientCount >= 1)
C2_OnlineIffSession ==
    \A u \in Users : u \in GetOnlineUserIDs <=> GetClientCount(u) >= 1

\* C3: when Hub.Run handles an envelope, a targeted session whose queue is
\* full is closed and removed from the registry and nothing is enqueued on
\* it; every other targeted session stays open and registered and gets the
\* envelope at the tail of its queue; its pump writes what is queued, in
\* full, to the wire.
C3_SlowConsumerEvicted ==
    [][/\ (EnvelopeHandled /\ ~crashed')
            => LET m == Head(broadcast) IN
               \A s \in Sessions :
                    IF s \in Registered /\ m.UserID \in {NoUser, UserID[s]}
                    THEN IF Len(send[s]) = SendCap
                         THEN /\ closed'[s]
                              /\ s \notin Registered'
                              /\ send'[s] = send[s]
                         ELSE /\ ~closed'[s]
                              /\ s \in Registered'
                              /\ send'[s] = Append(send[s], m)
                    ELSE /\ closed'[s] = closed[s]
                         /\ send'[s] = send[s]
                         /\ (s \in Registered') = (s \in Registered)
       /\ \A s \in Sessions :
            /\ (wp[s] = "wait" /\ wp'[s] = "write")
                => cur'[s] \o Ids(send'[s]) = Ids(send[s])
            /\ (wp[s] = "write" /\ wp'[s] = "wait")
                => (/\ Objects(wire'[s]) = cur[s] \o Ids(send[s])
                    /\ send'[s] = <<>>)
      ]_vars

\* C3 witness: session "a" never drained its queue and was evicted (its
\* inbound pump is still reading, so it never asked to unregister) while
\* session "b" is registered and has had an envelope written to the wire
C3_Witness ==
    /\ closed["a"] /\ rp["a"] = "read" /\ wp["a"] = "wait"
    /\ Len(send["a"]) = SendCap
    /\ "b" \in Registered /\ ~closed["b"]
    /\ wire["b"] # <<>>

\* C4: once the unregister of a session has been handled and its user has
\* no session left, the user has no entry in the presence structure and the
\* last announcement about the user is the offline one, also when the session
\* was closed by slow-consumer eviction
C4_EvictionUnregisters ==
    \A s \in Sessions :
        (rp[s] = "exit" /\ hubPc = "select" /\ GetClientCount(UserID[s]) = 0)
            => /\ UserID[s] \notin DOMAIN clients
               /\ \E i \in 1..Len(presence) :
                    /\ presence[i] = <<UserID[s], FALSE>>
                    /\ \A j \in (i + 1)..Len(presence) :
                            presence[j][1] # UserID[s]

\* C5 as stated: a handled envelope is enqueued onto exactly the sessions
\* registered under its target user, or onto every registered session when
\* it has no target
C5_RoutedToEveryTarget ==
    [][(EnvelopeHandled /\ ~crashed')
            => LET m == Head(broadcast) IN
               \A s \in Sessions :
                    (send'[s] = Append(send[s], m))
                        <=> (s \in Registered
                             /\ m.UserID \in {NoUser, UserID[s]})
      ]_vars

\* C5 amended: a handled envelope is enqueued onto exactly the registered
\* sessions of its target user (every registered session when it has no
\* target) whose queue is not full; the queue of any other session, a session
\* of a different user included, is left as it was
C5_RoutedToTargetsWithRoom ==
    [][(EnvelopeHandled /\ ~crashed')
            => LET m == Head(broadcast) IN
               \A s \in Sessions :
                    IF /\ s \in Registered
                       /\ m.UserID \in {NoUser, UserID[s]}
                       /\ Len(send[s]) < SendCap
                    THEN send'[s] = Append(send[s], m)
                    ELSE send'[s] = send[s]
      ]_vars

\* C5 witness: two registered sessions of different users, and a targeted
\* envelope that reached one of them and not the other
C5_Witness ==
    \E s \in Registered, r \in Registered :
        /\ UserID[s] # UserID[r]
        /\ \E i \in 1..Len(processed) :
            /\ processed[i].UserID = UserID[s]
            /\ Holds(s, processed[i].id)
            /\ ~Holds(r, processed[i].id)

\* C6: BroadcastToUser(U, payload) returns having touched only the control
\* channel, and when Hub.Run handles an envelope whose target user has no
\* registered session, the presence structure, every session queue and the
\* presence history stay as they were
C6_NoSessionNoEffect ==
    [][/\ CallReturned
            => UNCHANGED <<clients, send, closed, presence, callbacks, hubPc,
                           pending, cur, wire, crashed>>
       /\ (/\ EnvelopeHandled
           /\ Head(broadcast).UserID # NoUser
           /\ GetClientCount(Head(broadcast).UserID) = 0)
            => UNCHANGED <<clients, send, closed, presence, callbacks, hubPc,
                           pending, cur, wire, crashed>>
      ]_vars

\* C6 witness: an envelope for u2 has been handled while only u1 has
\* connected, and u1 has a registered session
C6_Witness ==
    /\ \E i \in 1..Len(processed) : processed[i].UserID = "u2"
    /\ \A s \in Sessions : UserID[s] # "u2"
    /\ Registered # {}

\* C7: BroadcastToUser and BroadcastToAll can be completed in every state,
\* whatever Hub.Run is doing; with the control channel full the call drops
\* the envelope and changes neither the channel nor the hub state, otherwise
\* it appends the envelope to the channel
C7_SendNeverBlocks ==
    /\ [](~crashed /\ calls < MaxCalls /\ Events < MaxEvents
            => \A u \in Users : ENABLED BroadcastToUser(u))
    /\ [](~crashed /\ hubPc = "presence" => ENABLED HubPresence)
    /\ [][(CallReturned \/ PresenceEmitted)
            => /\ IF Len(broadcast) = BroadcastCap
                  THEN broadcast' = broadcast
                  ELSE /\ Len(broadcast') = Len(broadcast) + 1
                       /\ SubSeq(broadcast', 1, Len(broadcast)) = broadcast
               /\ UNCHANGED <<clients, send, closed, crashed>>
         ]_vars

\* C7 witness: a BroadcastToUser call has returned with its envelope dropped
\* (neither handled nor in the control channel) while Hub.Run was not at its
\* select
C7_Witness ==
    /\ hubPc = "presence"
    /\ Len(broadcast) = BroadcastCap
    /\ calls > Len(processed)
               + Cardinality({i \in 1..Len(broadcast) :
                                 broadcast[i].UserID # NoUser})

C9_FailureUnregisters ==
    \A s \in Sessions :
        (rp[s] = "unregister" \/ wp[s] = "failed") ~> (s \notin Registered)

\* C10 as stated: a handshake handler standing at its register request, or
\* an inbound pump standing at its unregister signal, can complete it in
\* every state, whatever Hub.Run is doing
C10_ControlNeverWaits ==
    \A s \in Sessions :
        /\ (~crashed /\ conn[s] = "register") => ENABLED HubRegister(s)
        /\ (~crashed /\ rp[s] = "unregister") => ENABLED HubUnregister(s)

\* C10 amended: only the sends (BroadcastToUser, BroadcastToAll) are
\* non-blocking enqueues onto a bounded channel; a register or unregister
\* request completes only in a step in which Hub.Run, standing at its
\* select, receives it and handles it
C10_ControlIsRendezvous ==
    /\ [](~crashed /\ calls < MaxCalls /\ Events < MaxEvents
            => \A u \in Users : ENABLED BroadcastToUser(u))
    /\ [](Len(broadcast) <= BroadcastCap)
    /\ [][\A s \in Sessions :
            /\ RegisterHandled(s)
                => (hubPc = "select" /\ s \in Registered')
            /\ UnregisterHandled(s)
                => (hubPc = "select" /\ s \notin Registered')
         ]_vars

\* C10 witness: a handshake handler waits at its register request while
\* Hub.Run is busy announcing another session
C10_Witness ==
    /\ conn["b"] = "register"
    /\ hubPc = "presence"
    /\ ~ENABLED HubRegister("b")

\* ------------------------------------------------------------------------
\* Engagement score store: the functions of postRepository
\* ------------------------------------------------------------------------
\* A float64 is kept exactly, in millionths: int + frac / 1000000.  Every
\* value built here is below 2^33, where float64 still resolves 0.000001.

\* FindFeedByEngagement: score = float64(likes*2 + comments*3 + views*1)
ScoreRebuild(likeCount, commentCount, viewCount) ==
    (likeCount * 2) + (commentCount * 3) + (viewCount * 1)

\* findFeedByEngagementFallback: the int64 Score of PostWithScore
ScoreFallback(likeCount, commentCount, viewCount) ==
    (likeCount * 2) + (commentCount * 3) + (viewCount * 1)

ScoreUpdateSwapped(likeCount, commentCount, viewCount) ==
    (likeCount * 3) + (commentCount * 2) + (viewCount * 1)

\* UpdatePostEngagementScore: score := float64(...)
ScoreUpdate(likeCount, commentCount, viewCount) ==
    (likeCount * 2) + (commentCount * 3) + (viewCount * 1)

\* fmt.Sprintf("%.0f", score): the decimal digits of an integral score
RECURSIVE FormatScore(_)
FormatScore(score) ==
    IF score < 10 THEN <<score>>
    ELSE Append(FormatScore(score \div 10), score % 10)

\* fmt.Sscanf(cachedScore, "%f", &score)
RECURSIVE ParseScore(_)
ParseScore(cachedScore) ==
    IF cachedScore = <<>> THEN 0
    ELSE ParseScore(SubSeq(cachedScore, 1, Len(cachedScore) - 1)) * 10
         + cachedScore[Len(cachedScore)]

\* time.Time.Unix(): whole seconds, the nanoseconds are dropped
Unix(t) == t.sec

\* time.Time.After
After(t, u) == t.sec > u.sec \/ (t.sec = u.sec /\ t.nsec > u.nsec)

\* tieBreakScore := float64(post.CreatedAt.Unix()) / 1000000.0
tieBreakScore(CreatedAt) ==
    [int |-> Unix(CreatedAt) \div 1000000, frac |-> Unix(CreatedAt) % 1000000]

finalScoreSmallK(score, CreatedAt) ==
    [int |-> score * 100 + tieBreakScore(CreatedAt).int,
     frac |-> tieBreakScore(CreatedAt).frac]

\* finalScore := score*1000000.0 + tieBreakScore
finalScore(score, CreatedAt) ==
    [int |-> score * 1000000 + tieBreakScore(CreatedAt).int,
     frac |-> tieBreakScore(CreatedAt).frac]

\* order of two float64 scores
ScoreLess(a, b) == a.int < b.int \/ (a.int = b.int /\ a.frac < b.frac)

\* lexicographic rank of a member of the sorted set
Lex(p) == CHOOSE i \in DOMAIN PostIds : PostIds[i] = p

\* ZREVRANGE order: higher score first, equal scores in reverse
\* lexicographic order of the members
Ahead(z, p, q) ==
    ScoreLess(z[q], z[p]) \/ (z[p] = z[q] /\ Lex(p) > Lex(q))

RECURSIVE ZRevAll(_, _)
ZRevAll(z, S) ==
    IF S = {} THEN <<>>
    ELSE LET top == CHOOSE p \in S : \A q \in S \ {p} : Ahead(z, p, q)
         IN  <<top>> \o ZRevAll(z, S \ {top})

\* RedisClient.ZRevRange(key, start, stop), 0 <= start
ZRevRange(z, start, stop) ==
    LET all == ZRevAll(z, DOMAIN z)
        last == IF stop + 1 > Len(all) THEN Len(all) ELSE stop + 1
    IN  IF start + 1 > last THEN <<>> ELSE SubSeq(all, start + 1, last)

\* a ZAdd that replaces the sorted set by the one member
ZAddAlone(z, score, member) == [p \in {member} |-> score]

\* RedisClient.ZAdd(key, score, member)
ZAdd(z, score, member) ==
    [p \in DOMAIN z \cup {member} |-> IF p = member THEN score ELSE z[p]]

\* RedisClient.ZRem(key, member)
ZRem(z, member) == [p \in DOMAIN z \ {member} |-> z[p]]

\* rows matched by WHERE group_id IS NULL (soft-deleted rows excluded)
Eligible == {p \in Posts : posts[p].state = "live" /\ ~posts[p].GroupID}

\* the less function handed to sort.Slice
less(p, q) ==
    LET sp == ScoreFallback(likes[p], comments[p], views[p])
        sq == ScoreFallback(likes[q], comments[q], views[q])
    IN  IF sp # sq THEN sp > sq
        ELSE After(posts[p].CreatedAt, posts[q].CreatedAt)

\* sort.Slice(postsWithScore, less)
RECURSIVE SortSlice(_)
SortSlice(S) ==
    IF S = {} THEN <<>>
    ELSE LET first == CHOOSE p \in S : \A q \in S \ {p} : ~less(q, p)
         IN  <<first>> \o SortSlice(S \ {first})

\* findFeedByEngagementFallback(posts, limit, offset)
findFeedByEngagementFallback(allPosts, limit, offset) ==
    LET postsWithScore == SortSlice(allPosts)
        start == offset
        end == IF offset + limit > Len(postsWithScore)
               THEN Len(postsWithScore) ELSE offset + limit
    IN  IF start > Len(postsWithScore) THEN <<>>
        ELSE SubSeq(postsWithScore, start + 1, end)

\* the Redis keys of the score store, as one value
Store ==
    [scoreKey |-> scoreKey, sorted |-> sorted, sortedTTL |-> sortedTTL,
     feedCache |-> feedCache]

\* FindFeedByEngagement, the pipeline that rebuilds the sorted set: a cached
\* raw score is used when present, else one computed from the counts and
\* cached; every eligible post is added; the key gets an expiry
Rebuild(R) ==
    LET score(p) == IF R.scoreKey[p] = Missing
                    THEN ScoreRebuild(likes[p], comments[p], views[p])
                    ELSE ParseScore(R.scoreKey[p])
        z == [p \in DOMAIN R.sorted \cup Eligible |->
                IF p \in Eligible THEN finalScore(score(p), posts[p].CreatedAt)
                ELSE R.sorted[p]]
    IN  [R EXCEPT
           !.scoreKey = [p \in Posts |->
                           IF p \in Eligible /\ R.scoreKey[p] = Missing
                           THEN FormatScore(score(p)) ELSE R.scoreKey[p]],
           !.sorted = z,
           !.sortedTTL = (DOMAIN z # {})]

\* every order in which the database can return the rows of the set S
RECURSIVE Orders(_)
Orders(S) ==
    IF S = {} THEN {<<>>}
    ELSE UNION {{<<p>> \o rest : rest \in Orders(S \ {p})} : p \in S}

\* db.Where("id IN ? AND group_id IS NULL", postIDs).Find(&posts): the rows
\* of the ids that are live and outside groups, in an order the query leaves
\* open
FindIn(postIDs) ==
    Orders({p \in Eligible : \E i \in DOMAIN postIDs : postIDs[i] = p})

\* an assembler that returns the rows as the database handed them over
AssembleAsLoaded(rows, postIDs) == rows

\* postMap and the loop over postIDs: the rows in the order of postIDs, an
\* id without a row skipped
Assemble(rows, postIDs) ==
    LET postMap == {rows[i] : i \in DOMAIN rows}
    IN  SelectSeq(postIDs, LAMBDA id : id \in postMap)

\* the rows loaded by WHERE id IN ? AND group_id IS NULL, in the order of
\* postIDs, ids without a row skipped (the rows taken in the order of their
\* primary keys, one of the orders of FindIn)
Hydrate(postIDs) ==
    Assemble(SelectSeq(PostIds, LAMBDA p : p \in Eligible /\ \E i \in DOMAIN postIDs : postIDs[i] = p), postIDs)

\* a request that gives up when it has no ids from Redis
DegradedGivesUp(R, limit, offset, failed) ==
    [page |-> <<>>, store |-> R, failed |-> failed]

\* return r.findFeedByEngagementFallback(allPosts, limit, offset), reached
\* with no ids from Redis; nothing is cached
Degraded(R, limit, offset, failed) ==
    [page |-> findFeedByEngagementFallback(Eligible, limit, offset),
     store |-> R, failed |-> failed]

\* FindFeedByEngagement(userID, limit, offset) on the store R, with Redis
\* failing from the call named by fault on: the page it returns, the store
\* it leaves and whether it met the failure
FindFeedByEngagementWith(R, userID, limit, offset, fault) ==
    LET cacheKey == <<userID, limit, offset>>
        ids == ZRevRange(R.sorted, offset, offset + limit - 1)
        B == Rebuild(R)
        again == ZRevRange(B.sorted, offset, offset + limit - 1)
        served(S, postIDs) ==
            [page |-> Hydrate(postIDs),
             store |-> [S EXCEPT !.feedCache =
                          [k \in DOMAIN S.feedCache \cup {cacheKey} |->
                             IF k = cacheKey THEN Hydrate(postIDs)
                             ELSE S.feedCache[k]]],
             failed |-> FALSE]
    IN  IF ~redis THEN Degraded(R, limit, offset, FALSE)
        ELSE IF cacheKey \in DOMAIN R.feedCache
        THEN [page |-> R.feedCache[cacheKey], store |-> R, failed |-> FALSE]
        ELSE IF fault = "window" THEN Degraded(R, limit, offset, TRUE)
        ELSE IF Len(ids) > 0 THEN served(R, ids)
        ELSE IF fault = "exec" THEN Degraded(R, limit, offset, TRUE)
        ELSE IF Len(again) > 0 THEN served(B, again)
        ELSE Degraded(B, limit, offset, FALSE)

\* FindFeedByEngagement(userID, limit, offset) with every Redis call
\* answered
FindFeedByEngagement(R, userID, limit, offset) ==
    FindFeedByEngagementWith(R, userID, limit, offset, "none")

\* ------------------------------------------------------------------------
\* Engagement score store: the operations
\* ------------------------------------------------------------------------
\* every variable of the hub and of the sessions
registryVars == <<hubVars, sessVars, broadcast, send, closed, calls, crashed>>

\* UpdatePostEngagementScore(postID), first half: the three counts and the
\* post row are read (l, c, v: the counts once the caller's write is done)
UpdateRead(postID, l, c, v) ==
    IF redis /\ posts[postID].state = "live"
    THEN {[post |-> postID, score |-> ScoreUpdate(l, c, v),
           CreatedAt |-> posts[postID].CreatedAt, pc |-> "set"]}
    ELSE {}

\* one more mutation, feed request or expiry
Budget == ops < MaxOps /\ ops' = ops + 1

\* a caller of UpdatePostEngagementScore can start while fewer than n calls
\* are in flight
CanUpdate(n) == Cardinality(inflight) < n

\* postRepository.Create(post).  Ids are random UUIDs, so their lexicographic
\* order says nothing about the instants of creation: the posts are created
\* in the order of PostIds and take any instants, no two the same
CreatePost(p, group, t) ==
    /\ posts[p].state = "absent"
    /\ \A q \in Posts : Lex(q) < Lex(p) => posts[q].state # "absent"
    /\ \A q \in Posts : posts[q].state # "absent" => posts[q].CreatedAt # t
    /\ posts' = [posts EXCEPT ![p] =
                    [state |-> "live", CreatedAt |-> t, GroupID |-> group]]
    /\ IF redis
       THEN /\ feedCache' = [k \in {} |-> <<>>]
            /\ IF ~group
               THEN /\ sorted' = ZAdd(sorted, tieBreakScore(t), p)
                    /\ scoreKey' = [scoreKey EXCEPT ![p] = <<0>>]
               ELSE UNCHANGED <<sorted, scoreKey>>
       ELSE UNCHANGED <<feedCache, sorted, scoreKey>>
    /\ outage' = NoOutage
    /\ UNCHANGED <<registryVars, ops, redis, likes, comments, views, sortedTTL,
                   inflight>>

\* likeService.LikePost by a user with no like row on the post yet
LikePost(p) ==
    /\ Budget
    /\ posts[p].state = "live"
    /\ likes[p] < MaxLikes
    /\ likes' = [likes EXCEPT ![p] = @ + 1]
    /\ outage' = NoOutage
    /\ UNCHANGED <<registryVars, redis, posts, comments, views, scoreKey,
                   sorted, sortedTTL, feedCache, inflight>>

\* likeService.UnlikePost by a user with a like row on the post
UnlikePost(p) ==
    /\ Budget
    /\ likes[p] > 0
    /\ likes' = [likes EXCEPT ![p] = @ - 1]
    /\ outage' = NoOutage
    /\ UNCHANGED <<registryVars, redis, posts, comments, views, scoreKey,
                   sorted, sortedTTL, feedCache, inflight>>

\* commentService.CreateComment, up to the reads of UpdatePostEngagementScore
CreateComment(p) ==
    /\ Budget
    /\ posts[p].state = "live"
    /\ comments[p] < MaxComments
    /\ comments' = [comments EXCEPT ![p] = @ + 1]
    /\ inflight' = inflight \cup
                      UpdateRead(p, likes[p], comments[p] + 1, views[p])
    /\ outage' = NoOutage
    /\ UNCHANGED <<registryVars, redis, posts, likes, views, scoreKey,
                   sorted, sortedTTL, feedCache>>

\* commentService.DeleteComment, up to the reads of UpdatePostEngagementScore
DeleteComment(p) ==
    /\ Budget
    /\ comments[p] > 0
    /\ comments' = [comments EXCEPT ![p] = @ - 1]
    /\ inflight' = inflight \cup
                      UpdateRead(p, likes[p], comments[p] - 1, views[p])
    /\ outage' = NoOutage
    /\ UNCHANGED <<registryVars, redis, posts, likes, views, scoreKey,
                   sorted, sortedTTL, feedCache>>

\* postViewService.TrackView by a user with no view row on the post yet, up
\* to the reads of UpdatePostEngagementScore
TrackView(p) ==
    /\ Budget
    /\ posts[p].state = "live"
    /\ views[p] < MaxViews
    /\ views' = [views EXCEPT ![p] = @ + 1]
    /\ inflight' = inflight \cup
                      UpdateRead(p, likes[p], comments[p], views[p] + 1)
    /\ outage' = NoOutage
    /\ UNCHANGED <<registryVars, redis, posts, likes, comments, scoreKey,
                   sorted, sortedTTL, feedCache>>

\* postRepository.Update(post), up to the reads of UpdatePostEngagementScore
UpdatePost(p) ==
    /\ Budget
    /\ posts[p].state = "live"
    /\ redis /\ ~posts[p].GroupID
    /\ inflight' = inflight \cup UpdateRead(p, likes[p], comments[p], views[p])
    /\ outage' = NoOutage
    /\ UNCHANGED <<registryVars, redis, posts, likes, comments, views,
                   scoreKey, sorted, sortedTTL, feedCache>>

\* UpdatePostEngagementScore, second half: Set of the cached score and ZAdd,
\* the two taken as one step
UpdateWrite(r) ==
    /\ r \in inflight /\ r.pc = "set"
    /\ scoreKey' = [scoreKey EXCEPT ![r.post] = FormatScore(r.score)]
    /\ sorted' = ZAdd(sorted, finalScore(r.score, r.CreatedAt), r.post)
    /\ inflight' = inflight \ {r}
    /\ outage' = NoOutage
    /\ UNCHANGED <<registryVars, ops, redis, posts, likes, comments, views,
                   sortedTTL, feedCache>>

\* UpdatePostEngagementScore: r.redis.Set(scoreKey, ...) as a step of its own
UpdateSet(r) ==
    /\ r \in inflight /\ r.pc = "set"
    /\ scoreKey' = [scoreKey EXCEPT ![r.post] = FormatScore(r.score)]
    /\ inflight' = (inflight \ {r}) \cup {[r EXCEPT !.pc = "zadd"]}
    /\ outage' = NoOutage
    /\ UNCHANGED <<registryVars, ops, redis, posts, likes, comments, views,
                   sorted, sortedTTL, feedCache>>

\* UpdatePostEngagementScore: r.redis.ZAdd(postEngagementSortedSetKey, ...)
\* as a step of its own
UpdateZAdd(r) ==
    /\ r \in inflight /\ r.pc = "zadd"
    /\ sorted' = ZAdd(sorted, finalScore(r.score, r.CreatedAt), r.post)
    /\ inflight' = inflight \ {r}
    /\ outage' = NoOutage
    /\ UNCHANGED <<registryVars, ops, redis, posts, likes, comments, views,
                   scoreKey, sortedTTL, feedCache>>

\* postRepository.Delete(id)
DeletePost(p) ==
    /\ posts[p].state = "live"
    /\ posts' = [posts EXCEPT ![p].state = "deleted"]
    /\ IF redis /\ ~posts[p].GroupID
       THEN /\ sorted' = ZRem(sorted, p)
            /\ scoreKey' = [scoreKey EXCEPT ![p] = Missing]
            /\ sortedTTL' = (sortedTTL /\ DOMAIN ZRem(sorted, p) # {})
       ELSE UNCHANGED <<sorted, scoreKey, sortedTTL>>
    /\ outage' = NoOutage
    /\ UNCHANGED <<registryVars, ops, redis, likes, comments, views, feedCache,
                   inflight>>

\* postService.GetFeedByEngagement(userID, limit, offset); a request names
\* a fault only when it meets it
GetFeedByEngagement(userID, limit, offset, fault) ==
    /\ Budget
    /\ \E out \in {FindFeedByEngagementWith(Store, userID, limit, offset,
                                            fault)} :
        /\ out.failed = (fault # "none")
        /\ scoreKey' = out.store.scoreKey
        /\ sorted' = out.store.sorted
        /\ sortedTTL' = out.store.sortedTTL
        /\ feedCache' = out.store.feedCache
        /\ outage' = IF out.failed \/ ~redis
                     THEN [fault |-> IF redis THEN fault ELSE "nil",
                           limit |-> limit, offset |-> offset,
                           page |-> out.page]
                     ELSE NoOutage
    /\ UNCHANGED <<registryVars, redis, posts, likes, comments, views,
                   inflight>>

\* a cached raw score outlives postEngagementCacheExpiration
ExpireScore(p) ==
    /\ Budget
    /\ scoreKey[p] # Missing
    /\ scoreKey' = [scoreKey EXCEPT ![p] = Missing]
    /\ outage' = NoOutage
    /\ UNCHANGED <<registryVars, redis, posts, likes, comments, views,
                   sorted, sortedTTL, feedCache, inflight>>

\* the sorted set outlives the expiry the rebuild gave it
ExpireSorted ==
    /\ Budget
    /\ sortedTTL
    /\ sorted' = [p \in {} |-> 0]
    /\ sortedTTL' = FALSE
    /\ outage' = NoOutage
    /\ UNCHANGED <<registryVars, redis, posts, likes, comments, views,
                   scoreKey, feedCache, inflight>>

\* a cached feed page outlives postCacheExpiration
ExpireFeed(k) ==
    /\ Budget
    /\ k \in DOMAIN feedCache
    /\ feedCache' = [j \in DOMAIN feedCache \ {k} |-> feedCache[j]]
    /\ outage' = NoOutage
    /\ UNCHANGED <<registryVars, redis, posts, likes, comments, views,
                   scoreKey, sorted, sortedTTL, inflight>>

FeedInit ==
    /\ HubInit
    /\ redis \in BOOLEAN
    /\ ScoreStoreEmpty

FeedNext ==
    \/ \E p \in Posts, group \in BOOLEAN, t \in Times : CreatePost(p, group, t)
    \/ \E p \in Posts : LikePost(p)
    \/ \E p \in Posts : UnlikePost(p)
    \/ \E p \in Posts : CanUpdate(MaxInFlight) /\ CreateComment(p)
    \/ \E p \in Posts : CanUpdate(MaxInFlight) /\ DeleteComment(p)
    \/ \E p \in Posts : CanUpdate(MaxInFlight) /\ TrackView(p)
    \/ \E p \in Posts : CanUpdate(MaxInFlight) /\ UpdatePost(p)
    \/ \E r \in inflight : UpdateWrite(r)
    \/ \E p \in Posts : DeletePost(p)
    \/ \E limit \in 1..MaxLimit, offset \in 0..MaxOffset, fault \in Faults :
          GetFeedByEngagement(Requester, limit, offset, fault)
    \/ \E p \in Posts : ExpireScore(p)
    \/ ExpireSorted
    \/ \E k \in DOMAIN feedCache : ExpireFeed(k)

FeedSpec == FeedInit /\ [][FeedNext]_vars

\* the writers of the score store alone, with Redis configured: two calls
\* of UpdatePostEngagementScore can be in flight, and the Set and the ZAdd
\* of a call are separate steps. A like is never taken back here, so that a
\* post without likes has had none and every mutation of its counts has
\* made its call
RescoreInit ==
    /\ HubInit
    /\ redis = TRUE
    /\ ScoreStoreEmpty

RescoreNext ==
    \/ \E p \in Posts, group \in BOOLEAN, t \in Times : CreatePost(p, group, t)
    \/ \E p \in Posts : LikePost(p)
    \/ \E p \in Posts : CanUpdate(MaxRescores) /\ CreateComment(p)
    \/ \E p \in Posts : CanUpdate(MaxRescores) /\ DeleteComment(p)
    \/ \E p \in Posts : CanUpdate(MaxRescores) /\ TrackView(p)
    \/ \E p \in Posts : CanUpdate(MaxRescores) /\ UpdatePost(p)
    \/ \E r \in inflight : UpdateSet(r)
    \/ \E r \in inflight : UpdateZAdd(r)
    \/ \E p \in Posts : DeletePost(p)

RescoreSpec == RescoreInit /\ [][RescoreNext]_vars

\* ------------------------------------------------------------------------
\* Properties of the score store
\* ------------------------------------------------------------------------
\* the raw score the authoritative counts of a post stand for
Raw(p) == likes[p] * 2 + comments[p] * 3 + views[p] * 1

\* the step is a feed request: nothing but the Redis keys may change
IsFeedRequest ==
    /\ ops' = ops + 1
    /\ <<posts, likes, comments, views, inflight>>' =
       <<posts, likes, comments, views, inflight>>
    /\ \A p \in Posts : scoreKey[p] # Missing => scoreKey'[p] # Missing
    /\ DOMAIN feedCache \subseteq DOMAIN feedCache'
    /\ DOMAIN sorted \subseteq DOMAIN sorted'

\* C11: every raw score the three paths compute from a count triple is
\* likes*2 + comments*3 + views*1: the score UpdatePostEngagementScore reads
\* for its caller, the score the rebuild caches for a post without a cached
\* score, and the score the in-memory fallback sorts by
C11_RawScoreFormula ==
    [][/\ \A r \in inflight' \ inflight : r.score = Raw(r.post)'
       /\ IsFeedRequest =>
            \A p \in Posts :
                scoreKey[p] = Missing /\ scoreKey'[p] # Missing
                    => ParseScore(scoreKey'[p]) = Raw(p)
       /\ \A p \in Posts :
            ScoreFallback(likes[p], comments[p], views[p]) = Raw(p)
      ]_vars

\* an update that read one like and one comment is in flight
C11_Witness ==
    \E r \in inflight :
        /\ likes[r.post] = 1 /\ comments[r.post] = 1 /\ views[r.post] = 0
        /\ r.score = 5

\* p stands before q in the ranking
Before(ranking, p, q) ==
    \E i, j \in DOMAIN ranking : i < j /\ ranking[i] = p /\ ranking[j] = q

\* the entry of p in the sorted set is the one its counts stand for
Fresh(p) ==
    /\ p \in DOMAIN sorted
    /\ sorted[p] = finalScore(Raw(p), posts[p].CreatedAt)

\* C12: of two eligible posts with the same raw score, the one created later
\* is ranked strictly ahead, by the in-memory sort and by the sorted set (with
\* the entries their counts stand for), whatever the difference in time
C12_LaterPostRanksAhead ==
    \A p, q \in Eligible :
        Raw(p) = Raw(q) /\ After(posts[p].CreatedAt, posts[q].CreatedAt) =>
            /\ Before(SortSlice(Eligible), p, q)
            /\ Fresh(p) /\ Fresh(q) =>
                  Before(ZRevRange(sorted, 0, Len(PostIds) - 1), p, q)

\* the pages of the requests (limit, offset), (limit, offset + limit), ...
\* of one user, one after the other with nothing else happening, each on
\* the store the request before left, joined
RECURSIVE Windows(_, _, _, _)
Windows(R, userID, limit, offset) ==
    IF offset > Len(PostIds) THEN <<>>
    ELSE LET out == FindFeedByEngagement(R, userID, limit, offset)
         IN  out.page \o Windows(out.store, userID, limit, offset + limit)

\* C13: for every limit, the joined pages of the windows (limit, 0),
\* (limit, limit), ... requested with no mutation in between hold every
\* eligible post once: none twice, none missing
C13_WindowsPartitionRanking ==
    inflight = {} =>
        \A userID \in Users, limit \in 1..MaxLimit :
            LET all == Windows(Store, userID, limit, 0)
            IN  /\ \A i, j \in DOMAIN all : i # j => all[i] # all[j]
                /\ {all[i] : i \in DOMAIN all} = Eligible

\* the score store holds the score the counts of p stand for
StoreAgrees(p) == scoreKey[p] = FormatScore(Raw(p)) /\ Fresh(p)

\* C14: once three LikePost and one CreateComment on a post without views
\* have completed, the score store holds 9 for it, and the top-1 request of
\* any user returns it when every other eligible post scores below 9
C14_ThreeLikesOneCommentTopsFeed ==
    \A P \in Eligible :
        likes[P] = 3 /\ comments[P] = 1 /\ views[P] = 0 /\ inflight = {} =>
            /\ redis => scoreKey[P] = FormatScore(9)
                        /\ P \in DOMAIN sorted
                        /\ sorted[P] = finalScore(9, posts[P].CreatedAt)
            /\ (\A q \in Eligible \ {P} : Raw(q) < 9) =>
                  \A userID \in Users :
                      FindFeedByEngagement(Store, userID, 1, 0).page = <<P>>

\* C15: a like, a comment or a view created or removed on a live post, with
\* no other operation on the post under way, leaves the cached raw score and
\* the composite score of the post equal to what its counts stand for: at
\* once for a like, and when UpdatePostEngagementScore has written for a
\* comment or a view
C15_MutationRescores ==
    [][\A p \in Posts :
          posts[p].state = "live" /\ posts'[p].state = "live" /\ redis =>
            /\ likes'[p] # likes[p] /\ inflight = {} => StoreAgrees(p)'
            /\ \A r \in inflight \ inflight' :
                  r.post = p /\ r.score = Raw(p) => StoreAgrees(p)'
      ]_vars

\* C16: the sorted set never holds an entry for a post of a group
C16_NoGroupPostInIndex ==
    \A p \in DOMAIN sorted : ~posts[p].GroupID

\* C17: once Delete(P) of an eligible post and every operation that was under
\* way with it have completed, the sorted set holds no entry for P and P has
\* no cached raw score
C17_DeleteRemovesEntry ==
    \A P \in Posts :
        /\ posts[P].state = "deleted" /\ ~posts[P].GroupID
        /\ \A r \in inflight : r.post # P
        => P \notin DOMAIN sorted /\ scoreKey[P] = Missing

\* C18: whenever a feed request is answered from a non-empty sorted set, the
\* set holds an entry for every eligible post, so the request with offset 0
\* and a limit of at least the number of eligible posts returns them all
C18_IndexCoversEligible ==
    redis /\ inflight = {} /\ DOMAIN sorted # {} =>
        /\ Eligible \subseteq DOMAIN sorted
        /\ \A userID \in Users :
              userID # Requester =>
                LET page == FindFeedByEngagement(Store, userID, Len(PostIds),
                                                 0).page
                IN  {page[i] : i \in DOMAIN page} = Eligible

\* a score store with no key at all
NoKeys ==
    [scoreKey |-> [p \in Posts |-> Missing], sorted |-> [p \in {} |-> 0],
     sortedTTL |-> FALSE, feedCache |-> [k \in {} |-> <<>>]]

\* C19: for the same counts and creation instants and every (limit, offset),
\* the page of the in-memory fallback is the page the sorted set serves
\* after a rebuild
C19_FallbackEqualsIndex ==
    \A limit \in 1..MaxLimit, offset \in 0..MaxOffset :
        findFeedByEngagementFallback(Eligible, limit, offset) =
            Hydrate(ZRevRange(Rebuild(NoKeys).sorted, offset,
                              offset + limit - 1))

\* C20: of two posts whose entries in the sorted set are the ones their
\* counts stand for, the one with the higher raw score has the strictly
\* higher composite score, whatever the creation instants; the tie-break
\* term stays below 1000000
C20_RawScoreDominates ==
    /\ \A p \in Posts :
          posts[p].state # "absent" =>
              tieBreakScore(posts[p].CreatedAt).int < 1000000
    /\ \A p, q \in Posts :
          Fresh(p) /\ Fresh(q) /\ Raw(p) >= Raw(q) + 1 =>
              ScoreLess(sorted[q], sorted[p])

\* the post with the higher raw score is the older one by 14 years, and both
\* entries are in the sorted set
C20_Witness ==
    \E p, q \in Posts :
        /\ Fresh(p) /\ Fresh(q) /\ Raw(p) = Raw(q) + 1
        /\ Unix(posts[p].CreatedAt) = 1700000000
        /\ Unix(posts[q].CreatedAt) = 2147483647

\* the pages the loop over postIDs can build, one for each order in which
\* the database can return the rows
Pages(postIDs) == {Assemble(rows, postIDs) : rows \in FindIn(postIDs)}

\* C21: the page assembled from an id window of the sorted set holds the
\* loaded posts in the order of the window, whatever the order in which the
\* database returned the rows: an id without a loadable row (deleted, or a
\* post of a group) is skipped, every other id of the window is there once,
\* and the page is no longer than limit
C21_PageFollowsWindow ==
    redis =>
        \A limit \in 1..MaxLimit, offset \in 0..MaxOffset :
        \A postIDs \in {ZRevRange(sorted, offset, offset + limit - 1)} :
        \A result \in Pages(postIDs) :
            /\ Len(result) <= limit
            /\ \A i, j \in DOMAIN result : i # j => result[i] # result[j]
            /\ {result[i] : i \in DOMAIN result} =
                  {postIDs[i] : i \in DOMAIN postIDs} \cap Eligible
            /\ \A i, j \in DOMAIN result :
                  i < j => Before(postIDs, result[i], result[j])

\* C21 witness: a request was answered from a window of two ids, the first
\* of them without a loadable row, and its page holds the second only
C21_Witness ==
    \E limit \in 1..MaxLimit, offset \in 0..MaxOffset :
        LET postIDs == ZRevRange(sorted, offset, offset + limit - 1)
        IN  /\ Len(postIDs) = 2
            /\ postIDs[1] \notin Eligible
            /\ postIDs[2] \in Eligible
            /\ <<Requester, limit, offset>> \in DOMAIN feedCache
            /\ feedCache[<<Requester, limit, offset>>] = <<postIDs[2]>>

\* C22: a feed request for which Redis was not there (not configured, gone
\* from the read of the window on, or gone when the rebuild pipeline was
\* executed) has returned the page of the in-memory path, computed from the
\* counts of the database: the requested window of the eligible posts in
\* descending order of raw score, which is not empty when the window holds
\* an eligible post
C22_OutageServedFromCounts ==
    outage.fault # "none" =>
        \A ranking \in {SortSlice(Eligible)} :
            /\ {ranking[i] : i \in DOMAIN ranking} = Eligible
            /\ Len(ranking) = Cardinality(Eligible)
            /\ \A i, j \in DOMAIN ranking :
                  i < j => Raw(ranking[i]) >= Raw(ranking[j])
            /\ outage.page =
                  [i \in 1..Cardinality({j \in DOMAIN ranking :
                                            /\ outage.offset < j
                                            /\ j <= outage.offset
                                                    + outage.limit})
                   |-> ranking[outage.offset + i]]
            /\ outage.offset < Cardinality(Eligible) => outage.page # <<>>

\* C22 witness: with Redis configured and two eligible posts of different
\* raw scores, the request of the last step lost Redis at the pipeline and
\* returned both posts, the higher score first
C22_Witness ==
    /\ redis
    /\ outage.fault = "exec"
    /\ Len(outage.page) = 2
    /\ Raw(outage.page[1]) > Raw(outage.page[2])

\* C25: a feed request made while the sorted set is not empty leaves the
\* score store as it was, for every limit and offset: it writes no entry of
\* the sorted set, no cached raw score and no expiry; the rebuild runs only
\* when the sorted set is empty
C25_ReadLeavesIndexedStore ==
    [][IsFeedRequest /\ redis /\ DOMAIN sorted # {} =>
          /\ scoreKey' = scoreKey
          /\ sorted' = sorted
          /\ sortedTTL' = sortedTTL
      ]_vars

\* r stands at its Set / at its ZAdd, and the step is that write
SetBy(r) == r \in inflight /\ r.pc = "set" /\ r \notin inflight'
ZAddBy(r) == r \in inflight /\ r.pc = "zadd" /\ r \notin inflight'

\* C26: the Set and the ZAdd of UpdatePostEngagementScore(A) write the cached
\* raw score of A and the entry of A in the sorted set, and leave the cached
\* raw score and the entry of every other post B as they were, also while
\* another call is in flight for B
C26_UpdateWritesOwnPostOnly ==
    [][\A r \in inflight :
          /\ SetBy(r) =>
                /\ scoreKey'[r.post] = FormatScore(r.score)
                /\ sorted' = sorted
          /\ ZAddBy(r) =>
                /\ r.post \in DOMAIN sorted'
                /\ sorted'[r.post] = finalScore(r.score, r.CreatedAt)
                /\ scoreKey' = scoreKey
          /\ SetBy(r) \/ ZAddBy(r) =>
                \A B \in Posts \ {r.post} :
                    /\ scoreKey'[B] = scoreKey[B]
                    /\ (B \in DOMAIN sorted') = (B \in DOMAIN sorted)
                    /\ B \in DOMAIN sorted => sorted'[B] = sorted[B]
      ]_vars

\* C26 witness: two calls for different posts were in flight together; the
\* one for p has written both keys between the Set and the ZAdd of the one
\* for q, whose entry still has the score q was created with
C26_Witness ==
    \E p, q \in Posts : \E r \in inflight :
        /\ p # q /\ r.post = q /\ r.pc = "zadd"
        /\ r.score > 0
        /\ scoreKey[q] = FormatScore(r.score)
        /\ q \in DOMAIN sorted
        /\ sorted[q] = finalScore(0, posts[q].CreatedAt)
        /\ Raw(p) > 0 /\ StoreAgrees(p)

\* C27: when the last of the calls of UpdatePostEngagementScore in flight
\* for a live post completes (every count mutation of the post having made
\* its call: no like), the cached raw score of the post and the raw score in
\* its entry of the sorted set are the one its counts stand for, and so
\* equal to each other
C27_RescoresConverge ==
    [][\A p \in Posts :
          /\ \E r \in inflight : r.post = p
          /\ \A r \in inflight' : r.post # p
          /\ posts'[p].state = "live"
          /\ likes'[p] = 0
          => StoreAgrees(p)'
      ]_vars

\* ------------------------------------------------------------------------
\* Further properties of the hub
\* ------------------------------------------------------------------------
\* C23: every time Hub.Run announces a user (online after the register of a
\* first session, offline after the unregister of a last one), the
\* user_presence envelope is appended to the control channel, addressed to
\* every session, and the presence callback is invoked, whatever the control
\* channel holds at that moment
C23_PresenceAlwaysEnqueued ==
    [][PresenceEmitted =>
          /\ Len(broadcast') = Len(broadcast) + 1
          /\ SubSeq(broadcast', 1, Len(broadcast)) = broadcast
          /\ broadcast'[Len(broadcast')].UserID = NoUser
          /\ broadcast'[Len(broadcast')].Payload =
                [type |-> "user_presence", user_id |-> pending[1],
                 online |-> pending[2]]
          /\ callbacks' = Append(callbacks, pending)
      ]_vars

\* the outbound pump of s receives an envelope / closes its wire message
Received(s) == wp[s] = "wait" /\ wp'[s] = "write"
Flushed(s) == wp[s] = "write" /\ wp'[s] = "wait"

RunCase(c) ==
    CASE c = "register" -> \E s \in Sessions : RegisterHandled(s)
      [] c = "unregister" -> \E s \in Sessions : UnregisterHandled(s)
      [] c = "broadcast" -> EnvelopeHandled

\* C28: every step of Hub.Run that changes the session sets (adds or removes
\* a session, or a user's set) runs in a case that holds the write lock of
\* Hub.mu, so that no reader under the read lock runs beside it; this
\* includes the eviction of a slow consumer
C28_SessionSetsChangeUnderLock ==
    [][clients' # clients =>
          \E c \in DOMAIN mu : RunCase(c) /\ mu[c] = "Lock"
      ]_vars

\* the step is an attempt to enqueue onto the queue of s: the send of the
\* hub's broadcast case, or "c.send <- pong" of its readPump
EnqueuesOnto(s) ==
    \/ EnvelopeHandled /\ s \in Targets(Head(broadcast))
                       /\ ~SendFull(send[s])
    \/ rp[s] = "pong" /\ (rp'[s] = "read" \/ crashed' # crashed)

\* C29: once the hub has closed the queue of a session, no step enqueues onto
\* it: the hub does not target it, its readPump sends no pong onto it, and
\* its contents do not grow
C29_NoEnqueueAfterClose ==
    [][\A s \in Sessions :
          closed[s] => ~EnqueuesOnto(s) /\ Len(send'[s]) <= Len(send[s])
      ]_vars

\* the step closes the queue of s: unregister of a registered session, or
\* eviction of a targeted session whose queue is full
ClosesQueue(s) ==
    \/ UnregisterHandled(s) /\ s \in Registered
    \/ EnvelopeHandled /\ s \in Targets(Head(broadcast))
                       /\ SendFull(send[s])

\* C30: the queue of a session is closed at most once: a step that closes
\* it finds it open, a closed queue stays closed and no other step closes
\* one; the unregister of a session that is not registered closes nothing,
\* leaves the session sets as they are and announces no presence
C30_ClosedAtMostOnce ==
    [][\A s \in Sessions :
          /\ ClosesQueue(s) => ~closed[s] /\ closed'[s] /\ ~crashed'
          /\ closed[s] => closed'[s]
          /\ closed'[s] /\ ~closed[s] => ClosesQueue(s)
          /\ UnregisterHandled(s) /\ s \notin Registered =>
                /\ closed' = closed
                /\ clients' = clients
                /\ hubPc' = "select"
                /\ UNCHANGED <<pending, presence, callbacks, broadcast>>
                /\ ~crashed'
      ]_vars

\* C30 witness: a session was evicted as a slow consumer (its user keeps an
\* empty session set) and its unregister was handled afterwards
C30_Witness ==
    \E s \in Sessions :
        /\ closed[s] /\ rp[s] = "exit"
        /\ UserID[s] \in DOMAIN clients /\ clients[UserID[s]] = {}
        /\ ~crashed

====
